---------------------------- MODULE Spec2Model ----------------------------
(***************************************************************************)
(* Crochet Finder (src/Crochet_search.py): the catalog loader load_data    *)
(* and the filter / sort / display pipeline of one Streamlit script run.   *)
(*                                                                         *)
(* Strings whose characters the code inspects (titles, transcripts, color  *)
(* strings, column names, search terms) are sequences of one-character     *)
(* strings.  A spreadsheet cell is a record with a kind k: "str", "num",   *)
(* "nan" (an empty cell, pandas NaN) or "list" (a Python list of ints).    *)
(***************************************************************************)
EXTENDS Integers, Sequences, FiniteSets

VARIABLES sheet, df, errors, selected_cat, search_term, difficulty,
          duration_class, selected_color, tolerance, filtered, sort_by,
          refiltered, pc

vars == <<sheet, df, errors, selected_cat, search_term, difficulty,
          duration_class, selected_color, tolerance, filtered, sort_by,
          refiltered, pc>>

(* ------------------------------ cells -------------------------------- *)

Str(s) == [k |-> "str", s |-> s, n |-> 0, l |-> <<>>]
Num(n) == [k |-> "num", s |-> <<>>, n |-> n, l |-> <<>>]
NaN == [k |-> "nan", s |-> <<>>, n |-> 0, l |-> <<>>]
List(l) == [k |-> "list", s |-> <<>>, n |-> 0, l |-> l]

(* The result of an expression that may raise: ok = FALSE is the raise.   *)
Ok(v) == [ok |-> TRUE, v |-> v]
Raise == [ok |-> FALSE, v |-> <<>>]

(* --------------------------- Python str ------------------------------ *)

UpperChars == <<"A", "B", "C", "D", "E", "F", "G", "H", "I", "J", "K", "L", "M", "N", "O", "P", "Q", "R", "S", "T", "U", "V", "W", "X", "Y", "Z">>
LowerChars == <<"a", "b", "c", "d", "e", "f", "g", "h", "i", "j", "k", "l", "m", "n", "o", "p", "q", "r", "s", "t", "u", "v", "w", "x", "y", "z">>
DigitChars == <<"0", "1", "2", "3", "4", "5", "6", "7", "8", "9">>
HexChars == <<"0", "1", "2", "3", "4", "5", "6", "7", "8", "9", "a", "b", "c", "d", "e", "f">>

IndexOf(c, chars) == IF \E i \in 1..Len(chars) : chars[i] = c
                     THEN CHOOSE i \in 1..Len(chars) : chars[i] = c
                     ELSE 0

\* str.lower(), one character
LowerChar(c) == IF IndexOf(c, UpperChars) > 0
                THEN LowerChars[IndexOf(c, UpperChars)] ELSE c

\* str.lower()
lower(s) == [i \in 1..Len(s) |-> LowerChar(s[i])]

\* str.replace(a, b) for one-character a and b
replace(s, a, b) == [i \in 1..Len(s) |-> IF s[i] = a THEN b ELSE s[i]]

\* str.strip(): leading and trailing blanks removed
strip(s) ==
    LET nb == {i \in 1..Len(s) : s[i] # " "}
    IN  IF nb = {} THEN <<>>
        ELSE SubSeq(s, CHOOSE i \in nb : \A j \in nb : i <= j,
                       CHOOSE i \in nb : \A j \in nb : j <= i)

\* k in text
Contains(text, k) ==
    \E i \in 0..(Len(text) - Len(k)) : SubSeq(text, i + 1, i + Len(k)) = k

\* x.startswith(p)
startswith(x, p) == Len(x) >= Len(p) /\ SubSeq(x, 1, Len(p)) = p

IsDigit(c) == IndexOf(c, DigitChars) > 0
DigitVal(c) == IndexOf(c, DigitChars) - 1
IsHex(c) == IndexOf(LowerChar(c), HexChars) > 0
HexVal(c) == IndexOf(LowerChar(c), HexChars) - 1

\* int(ds) for a non-empty string of decimal digits
RECURSIVE DecVal(_)
DecVal(ds) == IF Len(ds) = 0 THEN 0
              ELSE 10 * DecVal(SubSeq(ds, 1, Len(ds) - 1)) + DigitVal(ds[Len(ds)])

\* int(s) as pd.to_numeric and int() read a decimal integer: optional sign,
\* then digits only.  Raise for anything else.
ParseInt(s) ==
    LET body == IF Len(s) > 0 /\ s[1] \in {"-", "+"} THEN Tail(s) ELSE s
    IN  IF Len(body) > 0 /\ \A i \in 1..Len(body) : IsDigit(body[i])
        THEN Ok(IF s[1] = "-" THEN 0 - DecVal(body) ELSE DecVal(body))
        ELSE Raise

\* int(s, 16) for the two-character slices parse_rgb takes: two hex digits,
\* or a sign or a blank before one hex digit, or a blank after one.
\* ValueError otherwise.
Int16(s) ==
    IF Len(s) # 2 THEN Raise
    ELSE IF IsHex(s[1]) /\ IsHex(s[2]) THEN Ok(16 * HexVal(s[1]) + HexVal(s[2]))
    ELSE IF s[1] \in {"+", " "} /\ IsHex(s[2]) THEN Ok(HexVal(s[2]))
    ELSE IF s[1] = "-" /\ IsHex(s[2]) THEN Ok(0 - HexVal(s[2]))
    ELSE IF IsHex(s[1]) /\ s[2] = " " THEN Ok(HexVal(s[1]))
    ELSE Raise

\* re.findall(r'\d+', x): the maximal runs of decimal digits, left to right
RECURSIVE findall_digits(_)
findall_digits(x) ==
    IF Len(x) = 0 THEN <<>>
    ELSE IF ~IsDigit(x[1]) THEN findall_digits(Tail(x))
    ELSE LET stop == IF \E i \in 1..Len(x) : ~IsDigit(x[i])
                     THEN CHOOSE i \in 1..Len(x) :
                            ~IsDigit(x[i]) /\ \A j \in 1..(i - 1) : IsDigit(x[j])
                     ELSE Len(x) + 1
         IN  <<SubSeq(x, 1, stop - 1)>> \o findall_digits(SubSeq(x, stop, Len(x)))

\* str(cell), also Series.astype(str): an empty cell reads "nan"
RECURSIVE DecStr(_)
DecStr(n) == IF n < 10 THEN <<DigitChars[n + 1]>>
             ELSE DecStr(n \div 10) \o <<DigitChars[(n % 10) + 1]>>

astype_str(c) ==
    CASE c.k = "str" -> c.s
      [] c.k = "nan" -> <<"n", "a", "n">>
      [] c.k = "num" -> IF c.n < 0 THEN <<"-">> \o DecStr(0 - c.n) ELSE DecStr(c.n)

\* Series.str.contains(term, case=False, na=False), for a term with no
\* regular-expression metacharacter (the terms of SearchTerms and the
\* category keys): a case-insensitive substring test, False on a non-string.
str_contains(c, term) == c.k = "str" /\ Contains(lower(c.s), lower(term))

(* --------------------------- load_data ------------------------------- *)

EasyKeywords == {<<"b", "e", "g", "i", "n", "n", "e", "r">>, <<"e", "a", "s", "y">>, <<"n", "o", "-", "s", "e", "w">>, <<"s", "i", "m", "p", "l", "e">>, <<"b", "a", "s", "i", "c">>}
MediumKeywords == {<<"i", "n", "t", "e", "r", "m", "e", "d", "i", "a", "t", "e">>, <<"m", "e", "d", "i", "u", "m">>, <<"p", "r", "o", "j", "e", "c", "t">>, <<"p", "r", "a", "c", "t", "i", "c", "e">>}
HardKeywords == {<<"a", "d", "v", "a", "n", "c", "e", "d">>, <<"c", "o", "m", "p", "l", "e", "x">>, <<"e", "x", "p", "e", "r", "t">>, <<"i", "n", "t", "r", "i", "c", "a", "t", "e">>}

ContainsAny(text, keywords) == \E k \in keywords : Contains(text, k)

extract_difficulty_HardFirst(text) ==
    LET t == lower(text)
    IN  IF ContainsAny(t, HardKeywords) THEN "Hard"
        ELSE IF ContainsAny(t, MediumKeywords) THEN "Medium"
        ELSE IF ContainsAny(t, EasyKeywords) THEN "Easy"
        ELSE "Unspecified"

extract_difficulty(text) ==
    LET t == lower(text)
    IN  IF ContainsAny(t, EasyKeywords) THEN "Easy"
        ELSE IF ContainsAny(t, MediumKeywords) THEN "Medium"
        ELSE IF ContainsAny(t, HardKeywords) THEN "Hard"
        ELSE "Unspecified"

DefaultGray == <<204, 204, 204>>

parse_rgb(x) ==
    IF x.k = "list" /\ Len(x.l) = 3 THEN x.l
    ELSE IF x.k # "str" THEN DefaultGray
    ELSE IF startswith(x.s, <<"#">>) /\ Len(x.s) >= 7
    THEN LET r == Int16(SubSeq(x.s, 2, 3))
             g == Int16(SubSeq(x.s, 4, 5))
             b == Int16(SubSeq(x.s, 6, 7))
         IN  IF r.ok /\ g.ok /\ b.ok THEN <<r.v, g.v, b.v>> ELSE DefaultGray
    ELSE IF startswith(x.s, <<"r", "g", "b">>)
    THEN LET found == findall_digits(x.s)
             first3 == SubSeq(found, 1, IF Len(found) < 3 THEN Len(found) ELSE 3)
         IN  [i \in 1..Len(first3) |-> DecVal(first3[i])]
    ELSE DefaultGray

\* pd.to_numeric(cell, errors="coerce"): a number, or NaN
to_numeric(c) ==
    CASE c.k = "num" -> c
      [] c.k = "str" -> LET p == ParseInt(strip(c.s))
                        IN  IF p.ok THEN Num(p.v) ELSE NaN
      [] OTHER -> NaN

\* .fillna(0)
fillna0(c) == IF c.k = "nan" THEN Num(0) ELSE c

CoerceDuration_NoFill(c) == to_numeric(c)

\* line 77, one cell: pd.to_numeric(..., errors="coerce").fillna(0)
CoerceDuration(c) == fillna0(to_numeric(c))

\* line 28: the normalised name of a column
NormalizeColumn(c) == replace(lower(strip(c)), " ", "_")

required_columns_NoUrl ==
    {<<"t", "i", "t", "l", "e">>, <<"t", "h", "u", "m", "b", "n", "a", "i", "l", "_", "u", "r", "l">>, <<"c", "h", "a", "n", "n", "e", "l">>, <<"d", "u", "r", "a", "t", "i", "o", "n">>}

required_columns ==
    {<<"t", "i", "t", "l", "e">>, <<"t", "h", "u", "m", "b", "n", "a", "i", "l", "_", "u", "r", "l">>, <<"u", "r", "l">>, <<"c", "h", "a", "n", "n", "e", "l">>, <<"d", "u", "r", "a", "t", "i", "o", "n">>}

missing_columns(columns) == {col \in required_columns : col \notin columns}

\* r.get(col, ''): the cell of a present column, '' for an absent one
RowGet(columns, r, col, cell) == IF col \in columns THEN cell ELSE Str(<<>>)

\* line 51: f"{r.get('title', '')} {r.get('transcript', '')}"
DifficultyText(columns, r) ==
    astype_str(RowGet(columns, r, <<"t", "i", "t", "l", "e">>, r.title)) \o <<" ">>
        \o astype_str(RowGet(columns, r, <<"t", "r", "a", "n", "s", "c", "r", "i", "p", "t">>, r.transcript))

EmptyFrame == [columns |-> {}, rows |-> <<>>]

\* One loaded record: the sheet's cells, then the derived columns.
LoadRow(columns, r) ==
    [title |-> r.title,
     transcript |-> r.transcript,
     category |-> r.category,
     difficulty |-> extract_difficulty(DifficultyText(columns, r)),
     dominant_rgb |-> IF <<"d", "o", "m", "i", "n", "a", "n", "t", "_", "r", "g", "b">> \in columns THEN r.dominant_rgb
                      ELSE List(parse_rgb(r.dominant_color_hex)),
     duration |-> CoerceDuration(r.duration)]

\* load_data(path): the frame returned and the st.error messages issued.
\* read_excel raises on an unreadable file; df.get("dominant_color_hex",
\* "#cccccc") is the str default when that column is absent, and its
\* .apply raises AttributeError; both reach the except clause of line 80.
load_data(s) ==
    LET columns == {NormalizeColumn(c) : c \in s.header}
    IN  IF ~s.readable
        THEN [df |-> EmptyFrame, errors |-> <<"Error loading data">>]
        ELSE IF missing_columns(columns) # {}
        THEN [df |-> EmptyFrame, errors |-> <<"Missing required columns">>]
        ELSE IF <<"d", "o", "m", "i", "n", "a", "n", "t", "_", "r", "g", "b">> \notin columns /\ <<"d", "o", "m", "i", "n", "a", "n", "t", "_", "c", "o", "l", "o", "r", "_", "h", "e", "x">> \notin columns
        THEN [df |-> EmptyFrame, errors |-> <<"Error loading data">>]
        ELSE [df |-> [columns |-> columns \cup {<<"d", "i", "f", "f", "i", "c", "u", "l", "t", "y">>, <<"d", "o", "m", "i", "n", "a", "n", "t", "_", "r", "g", "b">>},
                      rows |-> [i \in 1..Len(s.rows) |-> LoadRow(columns, s.rows[i])]],
              errors |-> <<>>]

\* line 288: df.empty
IsEmpty(frame) == Len(frame.rows) = 0 \/ frame.columns = {}

\* rgb_distance(a, b), squared: sum((a[i] - b[i]) ** 2 for i in range(3)).
\* np.sqrt is increasing, so for a whole number t, sqrt(s) < t exactly when
\* s < t * t, and sorting by sqrt(s) is sorting by s.  a[i] raises IndexError
\* on a list shorter than three and TypeError on a cell that is no list.
rgb_distance_sq(a, b) ==
    IF a.k = "list" /\ Len(a.l) >= 3
    THEN Ok((a.l[1] - b[1]) * (a.l[1] - b[1]) + (a.l[2] - b[2]) * (a.l[2] - b[2])
            + (a.l[3] - b[3]) * (a.l[3] - b[3]))
    ELSE Raise

\* rgb_to_hex(rgb): "{:02x}" of three elements; raises on fewer than three
\* and on elements that are not integers.
rgb_to_hex_ok(rgb) == rgb.k = "list" /\ Len(rgb.l) >= 3

(* ----------------------- filtering logic ----------------------------- *)
(* A frame is the sequence of row labels (positions in df.rows) that the   *)
(* DataFrame `filtered` holds, in its row order.  c is the criteria of     *)
(* the run: the widget values and st.session_state["selected_cat"].        *)
(* None, "" and the empty tuple are all <<>>: the code tests them by       *)
(* truthiness only.                                                        *)

Row(i) == df.rows[i]

\* lines 385-388
SearchKeep(frame, c) ==
    IF c.search_term = <<>> THEN Ok(frame)
    ELSE LET mask_title(i) == str_contains(Row(i).title, c.search_term)
             mask_trans(i) ==
                 IF <<"t", "r", "a", "n", "s", "c", "r", "i", "p", "t">> \in df.columns
                 THEN Contains(lower(astype_str(Row(i).transcript)), lower(c.search_term))
                 ELSE Contains(<<>>, lower(c.search_term))
         IN  Ok(SelectSeq(frame, LAMBDA i : mask_title(i) \/ mask_trans(i)))

\* lines 390-391
DifficultyKeep(frame, c) ==
    IF c.difficulty = "All" THEN Ok(frame)
    ELSE Ok(SelectSeq(frame, LAMBDA i : Row(i).difficulty = c.difficulty))

\* lines 393-395.  filtered["category"] raises KeyError when the sheet has
\* no category column; the .str accessor raises AttributeError on a column
\* read with no string in it (dtype float64).
CategoryKeep(frame, c) ==
    IF c.selected_cat = <<>> THEN Ok(frame)
    ELSE IF <<"c", "a", "t", "e", "g", "o", "r", "y">> \notin df.columns THEN Raise
    ELSE IF \A i \in 1..Len(df.rows) : Row(i).category.k # "str" THEN Raise
    ELSE Ok(SelectSeq(frame, LAMBDA i : str_contains(Row(i).category, c.selected_cat)))

Quick == "Quick (<15 min)"
\* "Medium (15 to 45 min)" with an en dash in the source, a hyphen here
MediumLen == "Medium (15-45 min)"
Long == "Long (>45 min)"

\* A comparison with NaN is False in pandas.
InBucket_QuickExclusive(duration_class_, d) ==
    CASE duration_class_ = Quick -> d.k = "num" /\ d.n < 15
      [] duration_class_ = MediumLen -> d.k = "num" /\ d.n >= 15 /\ d.n <= 45
      [] duration_class_ = Long -> d.k = "num" /\ d.n > 45
      [] OTHER -> TRUE

\* lines 397-402, the mask of one record with duration cell d
InBucket(duration_class_, d) ==
    CASE duration_class_ = Quick -> d.k = "num" /\ d.n <= 15
      [] duration_class_ = MediumLen -> d.k = "num" /\ d.n > 15 /\ d.n <= 45
      [] duration_class_ = Long -> d.k = "num" /\ d.n > 45
      [] OTHER -> TRUE

DurationKeep(frame, c) ==
    Ok(SelectSeq(frame, LAMBDA i : InBucket(c.duration_class, Row(i).duration)))

\* color_distance of row i (line 405), squared
color_distance(i, c) == rgb_distance_sq(Row(i).dominant_rgb, c.selected_color)

WithinTolerance_Inclusive(d, tolerance_) == d <= tolerance_ * tolerance_

\* line 406: color_distance < tolerance
WithinTolerance(d, tolerance_) == d < tolerance_ * tolerance_

\* lines 404-406: the apply raises when rgb_distance raises on a row
ColorKeep(frame, c) ==
    IF c.selected_color = <<>> THEN Ok(frame)
    ELSE IF \E j \in 1..Len(frame) : ~color_distance(frame[j], c).ok THEN Raise
    ELSE Ok(SelectSeq(frame,
                LAMBDA i : WithinTolerance(color_distance(i, c).v, c.tolerance)))

\* The rearrangements of a frame
Rearrangements(frame) ==
    LET n == Len(frame)
        bij == {f \in [1..n -> 1..n] : \A i, j \in 1..n : f[i] = f[j] => i = j}
    IN  {[i \in 1..n |-> frame[f[i]]] : f \in bij}

\* DataFrame.sort_values(by) with the default kind="quicksort", which is
\* not a stable sort: rows with equal keys may come out in any order, so
\* every rearrangement that is sorted by the key is a possible result.
sort_values(frame, key, ascending) ==
    {p \in Rearrangements(frame) :
        \A i, j \in 1..Len(p) :
            i < j => IF ascending THEN key[p[i]] <= key[p[j]]
                                  ELSE key[p[i]] >= key[p[j]]}

DistanceKey(c) ==
    [i \in 1..Len(df.rows) |->
        IF color_distance(i, c).ok THEN color_distance(i, c).v ELSE 0]
DurationKey == [i \in 1..Len(df.rows) |-> Row(i).duration.n]

Step(name, frame, c) ==
    CASE name = "search" -> SearchKeep(frame, c)
      [] name = "difficulty" -> DifficultyKeep(frame, c)
      [] name = "category" -> CategoryKeep(frame, c)
      [] name = "duration" -> DurationKeep(frame, c)
      [] name = "color" -> ColorKeep(frame, c)

RECURSIVE ApplySteps(_, _, _)
ApplySteps(order, frame, c) ==
    IF Len(order) = 0 THEN Ok(frame)
    ELSE LET r == Step(Head(order), frame, c)
         IN  IF r.ok THEN ApplySteps(Tail(order), r.v, c) ELSE Raise

CodeOrder_SkipDuration == <<"search", "difficulty", "category", "color">>

\* the order of lines 385-406
CodeOrder == <<"search", "difficulty", "category", "duration", "color">>

\* lines 382-408 on a frame: the possible values of `filtered`, or a raise
FilterOutcomes(frame, c) ==
    LET r == ApplySteps(CodeOrder, frame, c)
    IN  IF ~r.ok THEN {Raise}
        ELSE IF c.selected_color = <<>> THEN {r}
        ELSE {Ok(p) : p \in sort_values(r.v, DistanceKey(c), TRUE)}

SortOptions == {"Relevance", "Duration (Short first)", "Duration (Long first)"}

SortOutcomes_IgnoreRequest(frame, sort_by_) == {frame}

Reverse(s) == [i \in 1..Len(s) |-> s[Len(s) + 1 - i]]

SortOutcomes_Reversed(frame, sort_by_) ==
    CASE sort_by_ = "Duration (Short first)" -> sort_values(frame, DurationKey, TRUE)
      [] sort_by_ = "Duration (Long first)" -> sort_values(frame, DurationKey, FALSE)
      [] OTHER -> {Reverse(frame)}

\* lines 448-451
SortOutcomes(frame, sort_by_) ==
    CASE sort_by_ = "Duration (Short first)" -> sort_values(frame, DurationKey, TRUE)
      [] sort_by_ = "Duration (Long first)" -> sort_values(frame, DurationKey, FALSE)
      [] OTHER -> {frame}

\* lines 455-484: every card is rendered without a raise
RenderOk(frame) ==
    \A j \in 1..Len(frame) :
        rgb_to_hex_ok(Row(frame[j]).dominant_rgb) /\ Row(frame[j]).title.k = "str"

(* ------------------------- sheets and inputs ------------------------- *)

MaxRows == 2

SheetRow(title, transcript, category, duration, hex, rgb) ==
    [title |-> title, transcript |-> transcript, category |-> category,
     duration |-> duration, dominant_color_hex |-> hex, dominant_rgb |-> rgb]

\* Rows of the catalogs that are filtered and displayed.
MainPool ==
    { SheetRow(Str(<<"E", "a", "s", "y", " ", "G", "r", "a", "n", "n", "y", " ", "S", "q", "u", "a", "r", "e">>), NaN, Str(<<"g", "r", "a", "n", "n", "y", "s", "q", "u", "a", "r", "e">>),
               Num(10), Str(<<"#", "f", "f", "0", "0", "0", "0">>), NaN),
      SheetRow(Str(<<"A", "d", "v", "a", "n", "c", "e", "d", " ", "T", "a", "p", "e", "s", "t", "r", "y">>), Str(<<"e", "x", "p", "e", "r", "t", " ", "s", "t", "i", "t", "c", "h", "e", "s">>), Str(<<"t", "a", "p", "e", "s", "t", "r", "y">>),
               Num(60), Str(<<"#", "0", "0", "0", "0", "f", "f">>), NaN),
      SheetRow(Str(<<"M", "e", "d", "i", "u", "m", " ", "S", "h", "a", "w", "l">>), Str(<<"e", "x", "p", "e", "r", "t", " ", "t", "i", "p", "s">>), Str(<<"w", "e", "a", "r", "a", "b", "l", "e", " ", "u", "n", "i", "q", "u", "e">>),
               Str(<<"s", "o", "o", "n">>), Str(<<"#", "f", "a", "1", "e", "2", "8">>), NaN) }

\* Rows that exercise the derivations of load_data, one per sheet.
LoadPool ==
    { SheetRow(Str(<<"S", "i", "m", "p", "l", "e", " ", "T", "e", "e">>), Str(<<"p", "r", "a", "c", "t", "i", "c", "e", " ", "p", "r", "o", "j", "e", "c", "t">>), Str(<<"W", "e", "a", "r", "a", "b", "l", "e">>),
               Num(15), Str(<<"#", "f", "a", "0", "0", "0", "0">>), NaN),
      SheetRow(Str(<<"P", "l", "a", "i", "n", " ", "H", "a", "t">>), NaN, NaN,
               Str(<<"4", "5">>), Str(<<"r", "g", "b", "(", "2", "5", "5", ",", " ", "0", ",", " ", "0", ")">>), NaN),
      SheetRow(Str(<<"B", "a", "n", "a", "n", "a", " ", "B", "a", "g">>), Str(<<>>), Str(<<"u", "n", "i", "q", "u", "e">>),
               Str(<<"a", "b", "c">>), Str(<<"r", "g", "b", "(", "1", ",", "2", ")">>), NaN),
      SheetRow(Str(<<"E", "A", "S", "Y", " ", "a", "d", "v", "a", "n", "c", "e", "d">>), Str(<<"p", "r", "o", "j", "e", "c", "t">>), NaN,
               Num(0 - 5), Str(<<"#", "g", "g", "0", "0", "0", "0">>), NaN),
      SheetRow(Str(<<"M", "e", "d", "i", "u", "m", " ", "e", "x", "p", "e", "r", "t">>), NaN, NaN,
               Str(<<"-", "7">>), Str(<<"r", "g", "b", "(", "3", "0", "0", ",", "0", ",", "0", ")">>), NaN),
      SheetRow(Str(<<"I", "n", "t", "r", "i", "c", "a", "t", "e", " ", "D", "o", "i", "l", "y">>), Str(<<>>), NaN,
               Str(<<"t", "e", "n">>), Str(<<"#", "1", "2", "3", "4", "5">>), NaN),
      SheetRow(Str(<<"U", "n", "e", "a", "s", "y">>), Str(<<"c", "o", "m", "p", "l", "e", "x", " ", "p", "r", "a", "c", "t", "i", "c", "e">>), NaN,
               NaN, Str(<<"#", "-", "f", "0", "0", "0", "0">>), NaN),
      SheetRow(Str(<<"L", "a", "c", "e">>), Str(<<"e", "x", "p", "e", "r", "t">>), NaN,
               Num(16), NaN, NaN),
      SheetRow(Str(<<"N", "o", "-", "S", "e", "w", " ", "B", "e", "e">>), NaN, NaN,
               Num(46), Str(<<"r", "g", "b", "(", "1", "2", ",", " ", "3", "4", ",", " ", "5", "6", ")">>), NaN),
      SheetRow(Str(<<"M", "a", "t">>), NaN, NaN,
               Str(<<"+", "1", "5">>), Str(<<"#", "F", "F", "B", "7", "C", "5">>), NaN),
      SheetRow(Str(<<"R", "u", "g">>), NaN, NaN,
               Num(45), Str(<<"b", "l", "u", "e">>), NaN),
      SheetRow(Str(<<"B", "a", "g">>), NaN, NaN,
               Num(15), Str(<<"r", "g", "b", "(", ")">>), NaN),
      SheetRow(Str(<<"C", "a", "p">>), NaN, NaN,
               Num(14), Num(255), NaN),
      SheetRow(Str(<<"B", "i", "b">>), NaN, NaN,
               Num(44), Str(<<"#", "1", "2", "3", "4", "5", "6", "7">>), NaN) }

\* A row of a sheet that carries its own dominant_rgb column.
RgbPool ==
    { SheetRow(Str(<<"E", "a", "s", "y", " ", "S", "c", "a", "r", "f">>), NaN, Str(<<"w", "e", "a", "r", "a", "b", "l", "e">>),
               Num(30), NaN, Str(<<"[", "2", "5", "5", ",", " ", "0", ",", " ", "0", "]">>)) }

RequiredHeader == {<<"T", "i", "t", "l", "e">>, <<"T", "h", "u", "m", "b", "n", "a", "i", "l", " ", "U", "R", "L">>, <<"U", "R", "L">>, <<" ", "C", "h", "a", "n", "n", "e", "l", " ">>, <<"d", "u", "r", "a", "t", "i", "o", "n">>}
FullHeader == RequiredHeader \cup {<<"T", "r", "a", "n", "s", "c", "r", "i", "p", "t">>, <<"C", "a", "t", "e", "g", "o", "r", "y">>, <<"D", "o", "m", "i", "n", "a", "n", "t", " ", "C", "o", "l", "o", "r", " ", "H", "e", "x">>}
NoTranscriptHeader == RequiredHeader \cup {<<"C", "a", "t", "e", "g", "o", "r", "y">>, <<"D", "o", "m", "i", "n", "a", "n", "t", " ", "C", "o", "l", "o", "r", " ", "H", "e", "x">>}
NoCategoryHeader == RequiredHeader \cup {<<"T", "r", "a", "n", "s", "c", "r", "i", "p", "t">>, <<"D", "o", "m", "i", "n", "a", "n", "t", " ", "C", "o", "l", "o", "r", " ", "H", "e", "x">>}
RgbHeader == RequiredHeader \cup {<<"T", "r", "a", "n", "s", "c", "r", "i", "p", "t">>, <<"C", "a", "t", "e", "g", "o", "r", "y">>, <<"D", "o", "m", "i", "n", "a", "n", "t", " ", "R", "G", "B">>}
NoColorHeader == RequiredHeader \cup {<<"T", "r", "a", "n", "s", "c", "r", "i", "p", "t">>, <<"C", "a", "t", "e", "g", "o", "r", "y">>}
NoUrlHeader == FullHeader \ {<<"U", "R", "L">>}
NoDurationHeader == FullHeader \ {<<"d", "u", "r", "a", "t", "i", "o", "n">>}

SeqsUpTo(S, n) == UNION {[1..m -> S] : m \in 0..n}

Sheets ==
    {[readable |-> TRUE, header |-> FullHeader, rows |-> rows] :
        rows \in SeqsUpTo(MainPool, MaxRows)}
    \cup {[readable |-> TRUE, header |-> FullHeader, rows |-> <<r>>] : r \in LoadPool}
    \cup {[readable |-> TRUE, header |-> RgbHeader, rows |-> <<r>>] : r \in RgbPool}
    \cup {[readable |-> TRUE, header |-> h, rows |-> <<r>>] :
            h \in {NoTranscriptHeader, NoCategoryHeader, NoColorHeader,
                   NoUrlHeader, NoDurationHeader},
            r \in MainPool}
    \cup {[readable |-> FALSE, header |-> FullHeader, rows |-> <<>>]}

SearchTerms == {<<>>, <<"n", "a", "n">>, <<"E", "X", "P", "E", "R", "T">>}
Difficulties == {"All", "Easy", "Medium", "Hard"}
DurationClasses == {"All", Quick, MediumLen, Long}
\* the keys of the `categories` dict, lines 329-336
categories == {<<"p", "l", "u", "s", "h", "i", "e">>, <<"f", "l", "o", "w", "e", "r", "s">>, <<"g", "r", "a", "n", "n", "y", "s", "q", "u", "a", "r", "e">>, <<"t", "a", "p", "e", "s", "t", "r", "y">>, <<"w", "e", "a", "r", "a", "b", "l", "e">>, <<"u", "n", "i", "q", "u", "e">>}
\* the category buttons pressed in the modelled runs
CategoryClicks == {<<"w", "e", "a", "r", "a", "b", "l", "e">>}
\* the values st.color_picker returns in the modelled runs
PickedColors == {<<"#", "f", "a", "0", "0", "0", "0">>}
\* st.slider(50, 400, 120): the ends of the slider
Tolerances == {50, 400}
\* whether an image is uploaded, and the slider value: the slider is moved
\* in the modelled runs only when an image is uploaded
ColorInputs ==
    {[uploaded_file |-> FALSE, tolerance |-> 120]}
    \cup {[uploaded_file |-> TRUE, tolerance |-> t] : t \in Tolerances}

\* line 373: the picked "#rrggbb" as a tuple of three ints
PickedToRgb(picked) ==
    <<Int16(SubSeq(picked, 2, 3)).v, Int16(SubSeq(picked, 4, 5)).v,
      Int16(SubSeq(picked, 6, 7)).v>>

Crit == [search_term |-> search_term, difficulty |-> difficulty,
         selected_cat |-> selected_cat, duration_class |-> duration_class,
         selected_color |-> selected_color, tolerance |-> tolerance]

AllRows == [i \in 1..Len(df.rows) |-> i]

(* ------------------------------ actions ------------------------------ *)

Init ==
    /\ sheet \in Sheets
    /\ df = EmptyFrame
    /\ errors = <<>>
    /\ selected_cat = <<>>
    /\ search_term = <<>>
    /\ difficulty = "All"
    /\ duration_class = "All"
    /\ selected_color = <<>>
    /\ tolerance = 120
    /\ filtered = <<>>
    /\ sort_by = "Relevance"
    /\ refiltered = <<>>
    /\ pc = "start"

\* line 288
ShouldStop(frame) == IsEmpty(frame)

\* lines 285-290: load the catalog; st.stop() when it is empty
Load ==
    /\ pc = "start"
    /\ LET r == load_data(sheet)
       IN  /\ df' = r.df
           /\ errors' = IF ShouldStop(r.df) THEN r.errors \o <<"No data loaded">>
                        ELSE r.errors
           /\ pc' = IF ShouldStop(r.df) THEN "stopped" ELSE "ready"
    /\ UNCHANGED <<sheet, selected_cat, search_term, difficulty, duration_class,
                   selected_color, tolerance, filtered, sort_by, refiltered>>

\* lines 349-351: the Clear Category button, then st.rerun()
ClearCategory ==
    /\ pc = "ready"
    /\ selected_cat # <<>>
    /\ selected_cat' = <<>>
    /\ UNCHANGED <<sheet, df, errors, search_term, difficulty, duration_class,
                   selected_color, tolerance, filtered, sort_by, refiltered, pc>>

\* lines 295-408: the sidebar widgets are read, then the filters run
Filter ==
    /\ pc = "ready"
    /\ \E term \in SearchTerms, diff \in Difficulties, dur \in DurationClasses,
          click \in CategoryClicks \cup {<<>>}, picked \in PickedColors,
          color \in ColorInputs :
          LET c == [search_term |-> term, difficulty |-> diff,
                    selected_cat |-> IF click # <<>> THEN click ELSE selected_cat,
                    duration_class |-> dur,
                    selected_color |-> IF color.uploaded_file
                                       THEN PickedToRgb(picked) ELSE <<>>,
                    tolerance |-> color.tolerance]
          IN  /\ search_term' = c.search_term
              /\ difficulty' = c.difficulty
              /\ selected_cat' = c.selected_cat
              /\ duration_class' = c.duration_class
              /\ selected_color' = c.selected_color
              /\ tolerance' = c.tolerance
              /\ \E out \in FilterOutcomes(AllRows, c) :
                    /\ filtered' = out.v
                    /\ pc' = IF out.ok THEN "filtered" ELSE "crashed"
    /\ UNCHANGED <<sheet, df, errors, sort_by, refiltered>>

\* lines 435-484: the sort selectbox and the result cards
Display ==
    /\ pc = "filtered"
    /\ IF Len(filtered) = 0
       THEN /\ pc' = "shown"
            /\ UNCHANGED <<filtered, sort_by>>
       ELSE \E sb \in SortOptions :
                \E out \in SortOutcomes(filtered, sb) :
                    /\ sort_by' = sb
                    /\ filtered' = out
                    /\ pc' = IF RenderOk(out) THEN "shown" ELSE "crashed"
    /\ UNCHANGED <<sheet, df, errors, selected_cat, search_term, difficulty,
                   duration_class, selected_color, tolerance, refiltered>>

\* A widget event: Streamlit runs the script again; load_data is cached
\* (line 24) and st.session_state keeps selected_cat.
Rerun ==
    /\ pc \in {"shown", "crashed", "reshown"}
    /\ pc' = "ready"
    /\ filtered' = <<>>
    /\ refiltered' = <<>>
    /\ sort_by' = "Relevance"
    /\ search_term' = <<>>
    /\ difficulty' = "All"
    /\ duration_class' = "All"
    /\ selected_color' = <<>>
    /\ tolerance' = 120
    /\ UNCHANGED <<sheet, df, errors, selected_cat>>

\* lines 382-408 and 448-451 once more, on the displayed frame as catalog,
\* with the same criteria and the same sort request
RefilterOutcomes(frame, c, sort_by_) ==
    UNION { IF ~f.ok THEN {f}
            ELSE IF Len(f.v) = 0 THEN {f}
            ELSE {Ok(p) : p \in SortOutcomes(f.v, sort_by_)} :
            f \in FilterOutcomes(frame, c) }

Refilter ==
    /\ pc = "shown"
    /\ \E out \in RefilterOutcomes(filtered, Crit, sort_by) :
          /\ refiltered' = out.v
          /\ pc' = IF out.ok THEN "reshown" ELSE "crashed"
    /\ UNCHANGED <<sheet, df, errors, selected_cat, search_term, difficulty,
                   duration_class, selected_color, tolerance, filtered, sort_by>>

Next == Load \/ ClearCategory \/ Filter \/ Display \/ Rerun

Spec == Init /\ [][Next]_vars

NextIdem == Load \/ Filter \/ Display \/ Refilter

SpecIdem == Init /\ [][NextIdem]_vars

(* ------------------------------ claims ------------------------------- *)

Range(s) == {s[i] : i \in 1..Len(s)}

SortedBy(frame, key, ascending) ==
    \A i, j \in 1..Len(frame) :
        i < j => IF ascending THEN key[frame[i]] <= key[frame[j]]
                              ELSE key[frame[i]] >= key[frame[j]]

Loaded == pc \notin {"start", "stopped"}

\* The sheet's column names as line 28 normalises them
SheetColumns == {NormalizeColumn(h) : h \in sheet.header}

StepActive(name, c) ==
    CASE name = "search" -> c.search_term # <<>>
      [] name = "difficulty" -> c.difficulty # "All"
      [] name = "category" -> c.selected_cat # <<>>
      [] name = "duration" -> c.duration_class # "All"
      [] name = "color" -> c.selected_color # <<>>

AllSteps == <<"search", "difficulty", "category", "duration", "color">>

\* Record i satisfies criterion `name` of c, stated on the record alone
Satisfies(name, i, c) ==
    CASE name = "search" ->
            \/ str_contains(Row(i).title, c.search_term)
            \/ /\ <<"t", "r", "a", "n", "s", "c", "r", "i", "p", "t">> \in df.columns
               /\ Contains(lower(astype_str(Row(i).transcript)), lower(c.search_term))
      [] name = "difficulty" -> Row(i).difficulty = c.difficulty
      [] name = "category" -> str_contains(Row(i).category, c.selected_cat)
      [] name = "duration" ->
            \/ c.duration_class = Quick /\ Row(i).duration.n <= 15
            \/ c.duration_class = MediumLen /\ Row(i).duration.n > 15
                                            /\ Row(i).duration.n <= 45
            \/ c.duration_class = Long /\ Row(i).duration.n > 45
      [] name = "color" ->
            color_distance(i, c).v < c.tolerance * c.tolerance

\* The outcomes of applying the criteria of S to a frame, one outcome for
\* every order in which they can be applied
RECURSIVE OrderOutcomes(_, _, _)
OrderOutcomes(S, frame, c) ==
    IF S = {} THEN {Ok(frame)}
    ELSE UNION { LET r == Step(name, frame, c)
                 IN  IF r.ok THEN OrderOutcomes(S \ {name}, r.v, c) ELSE {Raise} :
                 name \in S }

ActiveSteps(c) == {name \in Range(AllSteps) : StepActive(name, c)}

C2_ColorOrderAlwaysWins ==
    (pc = "shown" /\ selected_color # <<>>) =>
        SortedBy(filtered, DistanceKey(Crit), TRUE)

\* C2, amended: with a target color active, the displayed sequence is sorted
\* ascending by color distance when the sort key is Relevance; a requested
\* duration sort is applied after the color ranking and replaces it, so the
\* displayed sequence is then sorted by duration, ascending for Short first
\* and descending for Long first.
C2_ColorOrderUnlessDurationSort ==
    (pc = "shown" /\ selected_color # <<>>) =>
        /\ sort_by = "Relevance" => SortedBy(filtered, DistanceKey(Crit), TRUE)
        /\ sort_by = "Duration (Short first)" => SortedBy(filtered, DurationKey, TRUE)
        /\ sort_by = "Duration (Long first)" => SortedBy(filtered, DurationKey, FALSE)

C2_Witness ==
    /\ pc = "shown"
    /\ selected_color # <<>>
    /\ sort_by = "Duration (Long first)"
    /\ Len(filtered) >= 2
    /\ ~SortedBy(filtered, DistanceKey(Crit), TRUE)

\* The frame that reaches the color step: lines 385-402 applied to df
BeforeColor(c) == ApplySteps(<<"search", "difficulty", "category", "duration">>,
                             AllRows, c)

\* C3: with a target color active, a record that reaches the color step is
\* kept exactly when its squared RGB distance to the target is strictly
\* below the squared tolerance (a record at distance equal to the tolerance
\* is dropped), and the kept records are ordered closest first.
C3_StrictToleranceClosestFirst ==
    (pc = "filtered" /\ selected_color # <<>>) =>
        /\ \A i \in Range(BeforeColor(Crit).v) :
              i \in Range(filtered) <=>
                  LET a == Row(i).dominant_rgb.l
                      b == selected_color
                  IN  (a[1] - b[1]) * (a[1] - b[1]) + (a[2] - b[2]) * (a[2] - b[2])
                        + (a[3] - b[3]) * (a[3] - b[3]) < tolerance * tolerance
        /\ Range(filtered) \subseteq Range(BeforeColor(Crit).v)
        /\ SortedBy(filtered, DistanceKey(Crit), TRUE)

C3_Witness ==
    /\ pc = "filtered"
    /\ selected_color = <<250, 0, 0>>
    /\ Len(filtered) >= 1
    /\ \E i \in Range(BeforeColor(Crit).v) :
          /\ color_distance(i, Crit).v = tolerance * tolerance
          /\ i \notin Range(filtered)
    /\ \E i \in Range(filtered) : Row(i).dominant_rgb.l = <<255, 0, 0>>

Buckets == {Quick, MediumLen, Long}

BucketRows(b) == Range(DurationKeep(AllRows, [Crit EXCEPT !.duration_class = b]).v)

OnlyDurationActive ==
    /\ search_term = <<>>
    /\ difficulty = "All"
    /\ selected_cat = <<>>
    /\ selected_color = <<>>
    /\ duration_class # "All"

LoweredText(i) ==
    lower(astype_str(sheet.rows[i].title) \o <<" ">>
          \o (IF <<"t", "r", "a", "n", "s", "c", "r", "i", "p", "t">> \in SheetColumns
              THEN astype_str(sheet.rows[i].transcript) ELSE <<>>))

HasEasy(t) == \E k \in {<<"b", "e", "g", "i", "n", "n", "e", "r">>, <<"e", "a", "s", "y">>, <<"n", "o", "-", "s", "e", "w">>, <<"s", "i", "m", "p", "l", "e">>, <<"b", "a", "s", "i", "c">>} : Contains(t, k)
HasMedium(t) == \E k \in {<<"i", "n", "t", "e", "r", "m", "e", "d", "i", "a", "t", "e">>, <<"m", "e", "d", "i", "u", "m">>, <<"p", "r", "o", "j", "e", "c", "t">>, <<"p", "r", "a", "c", "t", "i", "c", "e">>} : Contains(t, k)
HasHard(t) == \E k \in {<<"a", "d", "v", "a", "n", "c", "e", "d">>, <<"c", "o", "m", "p", "l", "e", "x">>, <<"e", "x", "p", "e", "r", "t">>, <<"i", "n", "t", "r", "i", "c", "a", "t", "e">>} : Contains(t, k)

\* C5: after a successful load every record's difficulty is one of Easy, Medium, Hard and
\* Unspecified and is decided by the lower-cased title+transcript text with
\* the precedence Easy, Medium, Hard, Unspecified.
C5_DifficultyPrecedence ==
    pc = "ready" =>
        \A i \in 1..Len(df.rows) :
            LET t == LoweredText(i)
                d == Row(i).difficulty
            IN  /\ d \in {"Easy", "Medium", "Hard", "Unspecified"}
                /\ HasEasy(t) => d = "Easy"
                /\ (HasMedium(t) /\ ~HasEasy(t)) => d = "Medium"
                /\ (HasHard(t) /\ ~HasMedium(t) /\ ~HasEasy(t)) => d = "Hard"
                /\ (~HasHard(t) /\ ~HasMedium(t) /\ ~HasEasy(t)) => d = "Unspecified"

C5_Witness ==
    /\ pc = "ready"
    /\ \E i \in 1..Len(df.rows) :
          /\ HasEasy(LoweredText(i))
          /\ HasMedium(LoweredText(i))
          /\ HasHard(LoweredText(i))
          /\ Row(i).difficulty = "Easy"

C6_Required == {<<"t", "i", "t", "l", "e">>, <<"t", "h", "u", "m", "b", "n", "a", "i", "l", "_", "u", "r", "l">>, <<"u", "r", "l">>, <<"c", "h", "a", "n", "n", "e", "l">>, <<"d", "u", "r", "a", "t", "i", "o", "n">>}

LoadMustFail ==
    \/ ~sheet.readable
    \/ \E n \in C6_Required : n \notin SheetColumns

LoadErrorReported ==
    \E k \in 1..Len(errors) :
        errors[k] \in {"Missing required columns", "Error loading data"}

\* C6: when a required column is absent after normalisation or the file
\* cannot be read, the load reports an error and returns no record; and
\* once a load error is reported the catalog is empty, the script is
\* stopped, and nothing has been filtered or displayed.
C6_FailedLoadStops ==
    /\ (pc \in {"ready", "stopped"} /\ LoadMustFail) => LoadErrorReported
    /\ LoadErrorReported =>
          /\ Len(df.rows) = 0
          /\ pc = "stopped"
          /\ filtered = <<>>

C6_Witness ==
    /\ pc = "stopped"
    /\ <<"u", "r", "l">> \notin SheetColumns
    /\ Len(sheet.rows) > 0
    /\ errors = <<"Missing required columns", "No data loaded">>

WellFormedHex(s) == Len(s) >= 7 /\ s[1] = "#" /\ \A i \in 2..7 : IsHex(s[i])

WellFormedRgb(s) ==
    /\ startswith(s, <<"r", "g", "b">>)
    /\ LET found == findall_digits(s)
       IN  Len(found) >= 3 /\ \A i \in 1..3 : DecVal(found[i]) <= 255

Malformed(cell) == cell.k = "str" /\ ~WellFormedHex(cell.s) /\ ~WellFormedRgb(cell.s)

\* C7 as claimed: after a successful load from the dominant_color_hex
\* column, a malformed color string gives dominant_rgb (204,204,204), and
\* every record's dominant_rgb has three components, each in 0..255.
C7_MalformedIsGray ==
    (pc = "ready" /\ <<"d", "o", "m", "i", "n", "a", "n", "t", "_", "r", "g", "b">> \notin SheetColumns) =>
        \A i \in 1..Len(df.rows) :
            /\ Malformed(sheet.rows[i].dominant_color_hex) =>
                  Row(i).dominant_rgb = List(DefaultGray)
            /\ Row(i).dominant_rgb.k = "list"
            /\ Len(Row(i).dominant_rgb.l) = 3
            /\ \A j \in 1..Len(Row(i).dominant_rgb.l) :
                  Row(i).dominant_rgb.l[j] \in 0..255

NumericCell(c) == c.k = "num" \/ (c.k = "str" /\ ParseInt(strip(c.s)).ok)

\* C8 as claimed: after a successful load no record is lost, a duration
\* that fails numeric coercion is 0, and every duration is >= 0.
C8_DurationNonNegative ==
    pc = "ready" =>
        /\ Len(df.rows) = Len(sheet.rows)
        /\ \A i \in 1..Len(df.rows) :
              /\ ~NumericCell(sheet.rows[i].duration) => Row(i).duration = Num(0)
              /\ Row(i).duration.k = "num"
              /\ Row(i).duration.n >= 0

\* C8, amended: after a successful load no record is lost and every
\* duration is a number: a value that fails numeric coercion is 0, and a
\* numeric value is kept as it is, a negative one included, so a duration
\* is negative exactly when the sheet's value is a negative number.
C8_DurationNumeric ==
    pc = "ready" =>
        /\ Len(df.rows) = Len(sheet.rows)
        /\ \A i \in 1..Len(df.rows) :
              LET c == sheet.rows[i].duration
              IN  /\ Row(i).duration.k = "num"
                  /\ ~NumericCell(c) => Row(i).duration = Num(0)
                  /\ c.k = "num" => Row(i).duration = c
                  /\ (c.k = "str" /\ NumericCell(c)) =>
                        Row(i).duration = Num(ParseInt(strip(c.s)).v)

C8_Witness ==
    /\ pc = "ready"
    /\ Len(df.rows) = 2
    /\ \E i \in 1..Len(df.rows) :
          /\ sheet.rows[i].duration = Str(<<"s", "o", "o", "n">>)
          /\ Row(i).duration = Num(0)

LastSortKey ==
    IF sort_by # "Relevance" THEN DurationKey ELSE DistanceKey(Crit)
SortApplied == sort_by # "Relevance" \/ selected_color # <<>>
NoTies(frame, key) ==
    \A i, j \in 1..Len(frame) : i # j => key[frame[i]] # key[frame[j]]

OnlySearchActive ==
    /\ search_term # <<>>
    /\ difficulty = "All"
    /\ selected_cat = <<>>
    /\ duration_class = "All"
    /\ selected_color = <<>>

TranscriptMissing(i) ==
    <<"t", "r", "a", "n", "s", "c", "r", "i", "p", "t">> \notin SheetColumns \/ sheet.rows[i].transcript.k = "nan"

\* C10 as claimed: under a search term alone, a record whose transcript is
\* missing is kept exactly when its title contains the term, ignoring case.
C10_MissingTranscriptIsEmpty ==
    (pc = "filtered" /\ OnlySearchActive) =>
        \A i \in 1..Len(df.rows) :
            TranscriptMissing(i) =>
                (i \in Range(filtered) <=>
                    Contains(lower(sheet.rows[i].title.s), lower(search_term)))

=============================================================================
